---- MODULE Spec2Model ----
(***************************************************************************)
(* SpotifyPartyQueue: the vote-ranked application queue (db_api.py), the   *)
(* admission / voting / selection rules and the reconciliation tick        *)
(* (business_logic.py), run by the periodic task of api.py.                *)
(*                                                                         *)
(* All threads share one sqlite3 connection, so a statement executed by    *)
(* one thread is immediately visible to the others: every action below is  *)
(* one SQL statement (with the commit that follows it) or one call of the  *)
(* external playback adapter.  Request handlers run in worker threads and  *)
(* interleave with the tick between statements.                            *)
(***************************************************************************)
EXTENDS Integers, Sequences, FiniteSets, TLC

\* ---------------------------------------------------------------- bounds
NumSongs   == 2     \* track identifiers known to the catalog source
NumClients == 2     \* X-Client-Id values
MaxVote    == 2     \* largest vote value cast (the endpoint does not clamp to +-1)
MaxQid     == 3     \* cap on the AUTOINCREMENT counter of app_queue
MaxLedger  == 3     \* cap on the number of rows of last_added_songs
MaxSnap    == 3     \* longest device snapshot returned by sp.get_queue
Res        == 2     \* clock units per second (sub-second resolution)
MaxJumps   == 1     \* the clock reads k * Window - j,
MaxJitter  == 1     \*   k in 0..MaxJumps, j in 0..MaxJitter
MaxRetryAfter == 2  \* seconds a 429 asks to wait: 0..MaxRetryAfter

Songs      == 1..NumSongs
Foreign    == 0                     \* a track on the device the app never queued
DeviceIds  == Songs \cup {Foreign}
Clients    == 1..NumClients
VoteValues == {-1, 0, MaxVote}      \* a down-vote, a zero vote, an oversized up-vote
Admitters  == {"a1", "a2"}          \* worker threads serving POST /queue

None == -1                          \* Python None / SQL NULL

ReplayMinutes == 30
Window        == ReplayMinutes * 60 * Res      \* timedelta(minutes=30)

Instants == {t \in {k * Window - j : k \in 0..MaxJumps, j \in 0..MaxJitter} : t >= 0}

\* ------------------------------------------------------------- variables
VARIABLES
    song,              \* table song: rows [id, last_played]
    app_queue,         \* table app_queue: rows [id, song_id]
    app_queue_seq,     \* sqlite_sequence of app_queue (AUTOINCREMENT)
    votes,             \* table votes: rows [app_queue_id, client_id, vote]
    last_added_songs,  \* table last_added_songs, in id order
    now,               \* datetime.now(timezone.utc)
    admit_pc, admit_song, admit_last_played, admit_now_utc, admit_ret,
    vote_pc, vote_song, vote_client, vote_value, vote_aq_id, vote_ret,
    tick_pc, queue, next_song, tick_aq_id, tick_ret,
    loop_pc,           \* periodic_check: the statement the task is at
    stop_event,        \* asyncio.Event of lifespan
    lifespan_pc,       \* lifespan: "yield", "await_task", "stopped"
    list_client, list_ret,  \* GET /queue: the client asking, the list returned
    token,             \* _token_mgr.state: [access_token, expires_at]
    req_pc, req_op, req_sent, req_status, req_waited, req_ret,
                       \* one call of spotify_api._authorized_request
    device             \* the playback device: the playing track, then its queue

db_vars    == <<song, app_queue, app_queue_seq, votes, last_added_songs>>
admit_vars == <<admit_pc, admit_song, admit_last_played, admit_now_utc, admit_ret>>
voter_vars == <<vote_pc, vote_song, vote_client, vote_value, vote_aq_id, vote_ret>>
tick_vars  == <<tick_pc, queue, next_song, tick_aq_id, tick_ret>>
loop_vars  == <<loop_pc, stop_event, lifespan_pc>>
list_vars  == <<list_client, list_ret>>
req_vars   == <<token, req_pc, req_op, req_sent, req_status, req_waited, req_ret>>
vars       == <<db_vars, now, admit_vars, voter_vars, tick_vars, loop_vars, list_vars,
                   req_vars, device>>

\* ------------------------------------------------------ db_api: helpers
ToUtcIso(dt) == dt \div Res                     \* whole seconds, microsecond=0

FromUtcIso(s) == IF s = None THEN None ELSE s * Res

GetAppQueueId(aq, song_id) ==
    IF \E r \in aq : r.song_id = song_id
    THEN (CHOOSE r \in aq : r.song_id = song_id).id
    ELSE None

\* ------------------------------------------------------ db_api: catalog
SongExists(tbl, song_id) == \E r \in tbl : r.id = song_id

SelectLastPlayed(tbl, song_id) == (CHOOSE r \in tbl : r.id = song_id).last_played

GetSong(tbl, song_id) == IF SongExists(tbl, song_id) THEN song_id ELSE None

SetLastPlayedAll(tbl, song_id, last_played) ==
    {[r EXCEPT !.last_played = ToUtcIso(last_played)] : r \in tbl}

SetLastPlayed(tbl, song_id, last_played) ==
    {IF r.id = song_id THEN [r EXCEPT !.last_played = ToUtcIso(last_played)] ELSE r
        : r \in tbl}

\* -------------------------------------------------------- db_api: queue
NoUniqueConstraint(aq, song_id) == FALSE

\* app_queue.song_id is UNIQUE
UniqueViolation(aq, song_id) == \E r \in aq : r.song_id = song_id

CheckNeverFinds(aq, song_id) == FALSE

CheckSongInAppQueue(aq, song_id) == \E r \in aq : r.song_id = song_id

\* DELETE ... ORDER BY id LIMIT 1: removes the oldest entry, whatever its song
RemoveOldestEntry(aq, song_id) ==
    {r \in aq : \E o \in aq : o.id < r.id}

RemoveSongFromAppQueue(aq, song_id) == {r \in aq : r.song_id # song_id}

NoCascade(vs, aq) == vs

\* ON DELETE CASCADE of votes.app_queue_id
CascadeVotes(vs, aq) == {v \in vs : \E r \in aq : r.id = v.app_queue_id}

\* -------------------------------------------------------- db_api: votes
UpsertVoteAccumulate(vs, aq_id, client_id, vote) ==
    IF \E v \in vs : v.app_queue_id = aq_id /\ v.client_id = client_id
    THEN {IF v.app_queue_id = aq_id /\ v.client_id = client_id
          THEN [v EXCEPT !.vote = v.vote + vote] ELSE v : v \in vs}
    ELSE vs \cup {[app_queue_id |-> aq_id, client_id |-> client_id, vote |-> vote]}

\* INSERT ... ON CONFLICT(app_queue_id, client_id) DO UPDATE SET vote = excluded.vote
UpsertVote(vs, aq_id, client_id, vote) ==
    IF \E v \in vs : v.app_queue_id = aq_id /\ v.client_id = client_id
    THEN {IF v.app_queue_id = aq_id /\ v.client_id = client_id
          THEN [v EXCEPT !.vote = vote] ELSE v : v \in vs}
    ELSE vs \cup {[app_queue_id |-> aq_id, client_id |-> client_id, vote |-> vote]}

RECURSIVE SumVotes(_)
SumVotes(rows) ==
    IF rows = {} THEN 0
    ELSE LET r == CHOOSE x \in rows : TRUE
         IN  r.vote + SumVotes(rows \ {r})

\* COALESCE(SUM(v.vote), 0) of the LEFT JOIN group of one app_queue row
VoteSum(vs, aq_id) == SumVotes({v \in vs : v.app_queue_id = aq_id})

ClearVotes(vs, aq_id) == {v \in vs : v.app_queue_id # aq_id}

\* ---------------------------------------------------- db_api: selection
RowBeforeNewestFirst(r1, r2) ==
    \/ r1.total > r2.total
    \/ r1.total = r2.total /\ r1.qid > r2.qid

\* ORDER BY total DESC, qid ASC
RowBefore(r1, r2) ==
    \/ r1.total > r2.total
    \/ r1.total = r2.total /\ r1.qid < r2.qid

GetMostVotedSong(aq, vs) ==
    IF Cardinality(vs) = 0 THEN None
    ELSE LET rows == {[song_id |-> r.song_id, total |-> VoteSum(vs, r.id), qid |-> r.id]
                        : r \in aq}
         IN  IF rows = {} THEN None
             ELSE (CHOOSE r \in rows : \A o \in rows \ {r} : RowBefore(r, o)).song_id

\* ORDER BY aq.id DESC
GetNewestSong(aq, tbl) ==
    LET rows == {r \in aq : SongExists(tbl, r.song_id)}
    IN  IF rows = {} THEN None
        ELSE (CHOOSE r \in rows : \A o \in rows : r.id >= o.id).song_id

\* ORDER BY aq.id ASC LIMIT 1 over app_queue JOIN song
GetOldestSong(aq, tbl) ==
    LET rows == {r \in aq : SongExists(tbl, r.song_id)}
    IN  IF rows = {} THEN None
        ELSE (CHOOSE r \in rows : \A o \in rows : r.id <= o.id).song_id

\* ------------------------------------------------------- db_api: ledger
RECURSIVE Reverse(_)
Reverse(s) == IF s = <<>> THEN <<>> ELSE Append(Reverse(Tail(s)), Head(s))

GetLastAddedSongIds(ledger, num_songs) ==
    IF num_songs <= 0 THEN <<>>
    ELSE LET n == Len(ledger)
             k == IF n < num_songs THEN n ELSE num_songs
         IN  Reverse(SubSeq(ledger, n - k + 1, n))

\* the insert followed by a pruning of all but the two newest rows
AddAndPrune(ledger, tbl, song_id) ==
    IF SongExists(tbl, song_id)
    THEN LET l == Append(ledger, song_id)
         IN  IF Len(l) <= 2 THEN l ELSE SubSeq(l, Len(l) - 1, Len(l))
    ELSE ledger

AddLastAddedSongId(ledger, tbl, song_id) ==
    IF SongExists(tbl, song_id) THEN Append(ledger, song_id) ELSE ledger

\* ------------------------------------------------------- business_logic
PickNextSong(aq, vs, tbl) ==
    LET most_voted_song_id == GetMostVotedSong(aq, vs)
    IN  IF most_voted_song_id # None /\ GetSong(tbl, most_voted_song_id) # None
        THEN GetSong(tbl, most_voted_song_id)
        ELSE GetOldestSong(aq, tbl)

Range(s) == {s[i] : i \in DOMAIN s}

\* an empty snapshot tells nothing: with two ledger records the slot is
\* taken to be filled
NextSlotEmptyNeedsSnapshot(q, last_added_song_ids) ==
    \/ Len(last_added_song_ids) <= 1
    \/ /\ q # <<>>
       /\ Cardinality({i \in DOMAIN q : q[i] \in Range(last_added_song_ids)}) <= 1

NextSlotEmptyLoose(q, last_added_song_ids) ==
    \/ Len(last_added_song_ids) <= 1
    \/ Cardinality({i \in DOMAIN q : q[i] \in Range(last_added_song_ids)}) <= 2

\* line 115: the "next" slot is considered empty
NextSlotEmpty(q, last_added_song_ids) ==
    \/ Len(last_added_song_ids) <= 1
    \/ Cardinality({i \in DOMAIN q : q[i] \in Range(last_added_song_ids)}) <= 1

RejectReplayInclusive(last_played, now_utc) ==
    last_played # None /\ now_utc - last_played <= Window

\* lines 43-45
RejectReplay(last_played, now_utc) ==
    last_played # None /\ now_utc - last_played < Window

\* --------------------------------------------------------------- Init
Init ==
    /\ song = {}
    /\ app_queue = {}
    /\ app_queue_seq = 0
    /\ votes = {}
    /\ last_added_songs = <<>>
    /\ now = 0
    /\ admit_pc = [a \in Admitters |-> "idle"]
    /\ admit_song = [a \in Admitters |-> None]
    /\ admit_last_played = [a \in Admitters |-> None]
    /\ admit_now_utc = [a \in Admitters |-> None]
    /\ admit_ret = [a \in Admitters |-> FALSE]
    /\ vote_pc = "idle"
    /\ vote_song = None
    /\ vote_client = None
    /\ vote_value = 0
    /\ vote_aq_id = None
    /\ vote_ret = FALSE
    /\ tick_pc = "idle"
    /\ queue = <<>>
    /\ next_song = None
    /\ tick_aq_id = None
    /\ tick_ret = FALSE
    /\ loop_pc = "while"
    /\ stop_event = FALSE
    /\ lifespan_pc = "yield"
    /\ list_client = None
    /\ list_ret = <<>>
    /\ token = [access_token |-> "None", expires_at |-> "None"]
    /\ req_pc = "idle"
    /\ req_op = "None"
    /\ req_sent = 0
    /\ req_status = <<>>
    /\ req_waited = 0
    /\ req_ret = "None"
    /\ device = <<>>

\* -------------------------------------------------------------- clock
Advance ==
    /\ \E t \in Instants : t > now /\ now' = t
    /\ UNCHANGED <<db_vars, admit_vars, voter_vars, tick_vars,
                   loop_vars, list_vars,
                   req_vars, device>>

\* ------------------------------------- admission (add_song_to_app_queue)
InFlight == Cardinality({a \in Admitters : admit_pc[a] # "idle"})

PrimaryKeyViolation(tbl, song_id) == \E r \in tbl : r.id = song_id

\* lines 31-34: sp.search_song returned nothing
AdmitNotFound(a) ==
    /\ admit_pc[a] = "idle"
    /\ admit_pc' = [admit_pc EXCEPT ![a] = "raised"]
    /\ UNCHANGED <<db_vars, now, admit_song, admit_last_played, admit_now_utc,
                   admit_ret, voter_vars, tick_vars,
                   loop_vars, list_vars,
                   req_vars, device>>

\* lines 31-36: sp.search_song found the track; db.add_song, SELECT last_played
AddSongSelect(a, s) ==
    /\ admit_pc[a] = "idle"
    /\ app_queue_seq + InFlight < MaxQid
    /\ admit_song' = [admit_song EXCEPT ![a] = s]
    /\ IF SongExists(song, s)
       THEN /\ admit_last_played' = [admit_last_played EXCEPT
                    ![a] = FromUtcIso(SelectLastPlayed(song, s))]
            /\ admit_pc' = [admit_pc EXCEPT ![a] = "check_in_queue"]
       ELSE /\ admit_pc' = [admit_pc EXCEPT ![a] = "add_song_insert"]
            /\ UNCHANGED admit_last_played
    /\ UNCHANGED <<db_vars, now, admit_now_utc, admit_ret, voter_vars, tick_vars,
                   loop_vars, list_vars,
                   req_vars, device>>

\* db.add_song, INSERT INTO song
AddSongInsert(a) ==
    /\ admit_pc[a] = "add_song_insert"
    /\ IF PrimaryKeyViolation(song, admit_song[a])
       THEN /\ admit_pc' = [admit_pc EXCEPT ![a] = "raised"]
            /\ UNCHANGED song
       ELSE /\ song' = song \cup {[id |-> admit_song[a], last_played |-> None]}
            /\ admit_pc' = [admit_pc EXCEPT ![a] = "check_in_queue"]
    /\ UNCHANGED <<app_queue, app_queue_seq, votes, last_added_songs, now,
                   admit_song, admit_last_played, admit_now_utc, admit_ret,
                   voter_vars, tick_vars,
                   loop_vars, list_vars,
                   req_vars, device>>

\* lines 39-40
AdmitCheckQueue(a) ==
    /\ admit_pc[a] = "check_in_queue"
    /\ IF CheckSongInAppQueue(app_queue, admit_song[a])
       THEN /\ admit_pc' = [admit_pc EXCEPT ![a] = "ret40"]
            /\ admit_ret' = [admit_ret EXCEPT ![a] = FALSE]
       ELSE /\ admit_pc' = [admit_pc EXCEPT ![a] = "replay_guard"]
            /\ UNCHANGED admit_ret
    /\ UNCHANGED <<db_vars, now, admit_song, admit_last_played, admit_now_utc,
                   voter_vars, tick_vars,
                   loop_vars, list_vars,
                   req_vars, device>>

\* lines 43-46
AdmitReplayGuard(a) ==
    /\ admit_pc[a] = "replay_guard"
    /\ IF admit_last_played[a] # None
       THEN /\ admit_now_utc' = [admit_now_utc EXCEPT ![a] = now]
            /\ IF RejectReplay(admit_last_played[a], now)
               THEN /\ admit_pc' = [admit_pc EXCEPT ![a] = "ret46"]
                    /\ admit_ret' = [admit_ret EXCEPT ![a] = FALSE]
               ELSE /\ admit_pc' = [admit_pc EXCEPT ![a] = "queue_insert"]
                    /\ UNCHANGED admit_ret
       ELSE /\ admit_pc' = [admit_pc EXCEPT ![a] = "queue_insert"]
            /\ UNCHANGED <<admit_now_utc, admit_ret>>
    /\ UNCHANGED <<db_vars, now, admit_song, admit_last_played, voter_vars, tick_vars,
                   loop_vars, list_vars,
                   req_vars, device>>

\* line 49: db.add_song_to_app_queue
\* An INTEGER PRIMARY KEY without AUTOINCREMENT: the new rowid is one more
\* than the largest rowid still in the table, so ordinals of removed entries
\* are handed out again.
AdmitInsertReusesRowid(a) ==
    LET ids == {e.id : e \in app_queue}
        top == IF ids = {} THEN 0
               ELSE CHOOSE i \in ids : \A j \in ids : j <= i
    IN
    /\ admit_pc[a] = "queue_insert"
    /\ IF UniqueViolation(app_queue, admit_song[a])
       THEN /\ admit_ret' = [admit_ret EXCEPT ![a] = FALSE]
            /\ UNCHANGED <<app_queue, app_queue_seq>>
       ELSE /\ app_queue' = app_queue \cup
                    {[id |-> top + 1, song_id |-> admit_song[a]]}
            /\ app_queue_seq' = top + 1
            /\ admit_ret' = [admit_ret EXCEPT ![a] = TRUE]
    /\ admit_pc' = [admit_pc EXCEPT ![a] = "ret49"]
    /\ UNCHANGED <<song, votes, last_added_songs, now, admit_song,
                   admit_last_played, admit_now_utc, voter_vars, tick_vars,
                   loop_vars, list_vars,
                   req_vars, device>>

AdmitInsert(a) ==
    /\ admit_pc[a] = "queue_insert"
    /\ IF UniqueViolation(app_queue, admit_song[a])
       THEN /\ admit_ret' = [admit_ret EXCEPT ![a] = FALSE]
            /\ UNCHANGED <<app_queue, app_queue_seq>>
       ELSE /\ app_queue' = app_queue \cup
                    {[id |-> app_queue_seq + 1, song_id |-> admit_song[a]]}
            /\ app_queue_seq' = app_queue_seq + 1
            /\ admit_ret' = [admit_ret EXCEPT ![a] = TRUE]
    /\ admit_pc' = [admit_pc EXCEPT ![a] = "ret49"]
    /\ UNCHANGED <<song, votes, last_added_songs, now, admit_song,
                   admit_last_played, admit_now_utc, voter_vars, tick_vars,
                   loop_vars, list_vars,
                   req_vars, device>>

AdmitReturn(a) ==
    /\ admit_pc[a] \in {"ret40", "ret46", "ret49", "raised"}
    /\ admit_pc' = [admit_pc EXCEPT ![a] = "idle"]
    /\ admit_song' = [admit_song EXCEPT ![a] = None]
    /\ admit_last_played' = [admit_last_played EXCEPT ![a] = None]
    /\ admit_now_utc' = [admit_now_utc EXCEPT ![a] = None]
    /\ admit_ret' = [admit_ret EXCEPT ![a] = FALSE]
    /\ UNCHANGED <<db_vars, now, voter_vars, tick_vars,
                   loop_vars, list_vars,
                   req_vars, device>>

Admission(a) ==
    \/ AdmitNotFound(a)
    \/ \E s \in Songs : AddSongSelect(a, s)
    \/ AddSongInsert(a)
    \/ AdmitCheckQueue(a)
    \/ AdmitReplayGuard(a)
    \/ AdmitInsert(a)
    \/ AdmitReturn(a)

\* ------------------------------------------------------ voting (vote_song)
\* PRAGMA foreign_keys left off: no insert into votes is rejected
NoForeignKey(aq, aq_id) == FALSE

\* votes.app_queue_id REFERENCES app_queue(id), PRAGMA foreign_keys = ON
ForeignKeyViolation(aq, aq_id) == ~ \E r \in aq : r.id = aq_id

\* db_api lines 209-211
VoteResolve(s, c, v) ==
    /\ vote_pc = "idle"
    /\ vote_song' = s
    /\ vote_client' = c
    /\ vote_value' = v
    /\ vote_aq_id' = GetAppQueueId(app_queue, s)
    /\ IF vote_aq_id' = None
       THEN vote_pc' = "ret211" /\ vote_ret' = FALSE
       ELSE vote_pc' = "upsert" /\ UNCHANGED vote_ret
    /\ UNCHANGED <<db_vars, now, admit_vars, tick_vars,
                   loop_vars, list_vars,
                   req_vars, device>>

\* db_api lines 213-223
VoteUpsert ==
    /\ vote_pc = "upsert"
    /\ IF ForeignKeyViolation(app_queue, vote_aq_id)
       THEN vote_pc' = "raised" /\ UNCHANGED <<votes, vote_ret>>
       ELSE /\ votes' = UpsertVote(votes, vote_aq_id, vote_client, vote_value)
            /\ vote_pc' = "ret223"
            /\ vote_ret' = TRUE
    /\ UNCHANGED <<song, app_queue, app_queue_seq, last_added_songs, now,
                   admit_vars, vote_song, vote_client, vote_value, vote_aq_id,
                   tick_vars,
                   loop_vars, list_vars,
                   req_vars, device>>

VoteReturn ==
    /\ vote_pc \in {"ret211", "ret223", "raised"}
    /\ vote_pc' = "idle"
    /\ vote_song' = None
    /\ vote_client' = None
    /\ vote_value' = 0
    /\ vote_aq_id' = None
    /\ vote_ret' = FALSE
    /\ UNCHANGED <<db_vars, now, admit_vars, tick_vars,
                   loop_vars, list_vars,
                   req_vars, device>>

Voting ==
    \/ \E s \in Songs, c \in Clients, v \in VoteValues : VoteResolve(s, c, v)
    \/ VoteUpsert
    \/ VoteReturn

\* ------------------------------------------- reconciliation (check_sp_queue)
Snapshots == UNION {[1..n -> DeviceIds] : n \in 0..MaxSnap}

\* what _authorized_request hands to sp.get_queue: None after a failed
\* request, else the tracks of "currently_playing" and "queue"
FailedFetch == [failed |-> TRUE, items |-> <<>>]

Payloads == {FailedFetch} \cup {[failed |-> FALSE, items |-> q] : q \in Snapshots}

\* spotify_api.get_queue: [] when the payload is None
SpGetQueue(payload) == IF payload.failed THEN <<>> ELSE payload.items

\* line 107: sp.get_queue() returned the list q (a failed fetch is the empty list)
TickGetQueue(q) ==
    /\ tick_pc = "idle"
    /\ Len(last_added_songs) < MaxLedger
    /\ queue' = q
    /\ tick_pc' = "L108"
    /\ UNCHANGED <<db_vars, now, admit_vars, voter_vars, next_song, tick_aq_id,
                   tick_ret,
                   loop_vars, list_vars,
                   req_vars, device>>

\* lines 108-115 and 154
TickCheck ==
    /\ tick_pc = "L108"
    /\ IF NextSlotEmpty(queue, GetLastAddedSongIds(last_added_songs, 2))
       THEN tick_pc' = "L116" /\ UNCHANGED tick_ret
       ELSE tick_pc' = "ret154" /\ tick_ret' = FALSE
    /\ UNCHANGED <<db_vars, now, admit_vars, voter_vars, queue, next_song,
                   tick_aq_id,
                   loop_vars, list_vars,
                   req_vars, device>>

\* lines 116-119
TickPick ==
    /\ tick_pc = "L116"
    /\ next_song' = PickNextSong(app_queue, votes, song)
    /\ IF next_song' = None
       THEN tick_pc' = "ret119" /\ tick_ret' = FALSE
       ELSE tick_pc' = "L122" /\ UNCHANGED tick_ret
    /\ UNCHANGED <<db_vars, now, admit_vars, voter_vars, queue, tick_aq_id,
                   loop_vars, list_vars,
                   req_vars, device>>

\* lines 122-124: sp.add_song_to_queue succeeded
\* (the snapshot is not read again; the model drops it here)
TickPushOk ==
    /\ tick_pc = "L122"
    /\ tick_pc' = "L127"
    /\ queue' = <<>>
    /\ UNCHANGED <<db_vars, now, admit_vars, voter_vars, next_song, tick_aq_id,
                   tick_ret,
                   loop_vars, list_vars,
                   req_vars, device>>

TickPushFailDrops ==
    /\ tick_pc = "L122"
    /\ tick_pc' = "ret124"
    /\ tick_ret' = FALSE
    /\ app_queue' = RemoveSongFromAppQueue(app_queue, next_song)
    /\ votes' = CascadeVotes(votes, app_queue')
    /\ UNCHANGED <<song, app_queue_seq, last_added_songs, now, admit_vars,
                   voter_vars, queue, next_song, tick_aq_id, loop_vars, list_vars,
                   req_vars, device>>

\* lines 122-124: sp.add_song_to_queue failed
TickPushFail ==
    /\ tick_pc = "L122"
    /\ tick_pc' = "ret124"
    /\ tick_ret' = FALSE
    /\ UNCHANGED <<db_vars, now, admit_vars, voter_vars, queue, next_song,
                   tick_aq_id,
                   loop_vars, list_vars,
                   req_vars, device>>

\* lines 126-129
TickLedger ==
    /\ tick_pc = "L127"
    /\ last_added_songs' = AddLastAddedSongId(last_added_songs, song, next_song)
    /\ tick_pc' = "L132"
    /\ UNCHANGED <<song, app_queue, app_queue_seq, votes, now, admit_vars,
                   voter_vars, queue, next_song, tick_aq_id, tick_ret,
                   loop_vars, list_vars,
                   req_vars, device>>

\* the removal deletes nothing and reports no error
TickRemoveKeeps ==
    /\ tick_pc = "L132"
    /\ tick_pc' = "L139"
    /\ UNCHANGED <<db_vars, now, admit_vars, voter_vars, queue, next_song,
                   tick_aq_id, tick_ret, loop_vars, list_vars, req_vars, device>>

\* lines 131-135
TickRemove ==
    /\ tick_pc = "L132"
    /\ app_queue' = RemoveSongFromAppQueue(app_queue, next_song)
    /\ votes' = CascadeVotes(votes, app_queue')
    /\ tick_pc' = "L139"
    /\ UNCHANGED <<song, app_queue_seq, last_added_songs, now, admit_vars,
                   voter_vars, queue, next_song, tick_aq_id, tick_ret,
                   loop_vars, list_vars,
                   req_vars, device>>

\* lines 138-141, db_api lines 256-258
TickClearResolve ==
    /\ tick_pc = "L139"
    /\ tick_aq_id' = GetAppQueueId(app_queue, next_song)
    /\ tick_pc' = IF tick_aq_id' = None THEN "L146" ELSE "L259"
    /\ UNCHANGED <<db_vars, now, admit_vars, voter_vars, queue, next_song, tick_ret,
                   loop_vars, list_vars,
                   req_vars, device>>

\* db_api lines 259-261
TickClearDelete ==
    /\ tick_pc = "L259"
    /\ votes' = ClearVotes(votes, tick_aq_id)
    /\ tick_pc' = "L146"
    /\ UNCHANGED <<song, app_queue, app_queue_seq, last_added_songs, now,
                   admit_vars, voter_vars, queue, next_song, tick_aq_id, tick_ret,
                   loop_vars, list_vars,
                   req_vars, device>>

\* lines 144-151
TickSetLastPlayed ==
    /\ tick_pc = "L146"
    /\ song' = SetLastPlayed(song, next_song, now)
    /\ tick_pc' = "ret151"
    /\ tick_ret' = TRUE
    /\ UNCHANGED <<app_queue, app_queue_seq, votes, last_added_songs, now,
                   admit_vars, voter_vars, queue, next_song, tick_aq_id,
                   loop_vars, list_vars,
                   req_vars, device>>

TickReturn ==
    /\ tick_pc \in {"ret119", "ret124", "ret151", "ret154"}
    /\ tick_pc' = "idle"
    /\ queue' = <<>>
    /\ next_song' = None
    /\ tick_aq_id' = None
    /\ tick_ret' = FALSE
    /\ UNCHANGED <<db_vars, now, admit_vars, voter_vars,
                   loop_vars, list_vars,
                   req_vars, device>>

\* everything of a tick after the snapshot was fetched
TickBody ==
    \/ TickCheck
    \/ TickPick
    \/ TickPushOk
    \/ TickPushFail
    \/ TickLedger
    \/ TickRemove
    \/ TickClearResolve
    \/ TickClearDelete
    \/ TickSetLastPlayed
    \/ TickReturn

\* --------------------------------------------- listing (GET /queue)
ListedBeforeAscending(r1, r2) ==
    \/ r1.vote_sum < r2.vote_sum
    \/ r1.vote_sum = r2.vote_sum /\ r1.qid < r2.qid

\* ORDER BY vote_sum DESC, qid ASC
ListedBefore(r1, r2) ==
    \/ r1.vote_sum > r2.vote_sum
    \/ r1.vote_sum = r2.vote_sum /\ r1.qid < r2.qid

\* SUM(CASE WHEN v.client_id = ? THEN v.vote END), NULL read as 0 (line 191)
ClientVoteSum(vs, aq_id, client_id) ==
    SumVotes({v \in vs : v.app_queue_id = aq_id /\ v.client_id = client_id})

RECURSIVE OrderRows(_)
OrderRows(rows) ==
    IF rows = {} THEN <<>>
    ELSE LET first == CHOOSE r \in rows : \A o \in rows \ {r} : ListedBefore(r, o)
         IN  <<[song_id |-> first.song_id, vote_sum |-> first.vote_sum,
                client_vote |-> first.client_vote]>>
             \o OrderRows(rows \ {first})

\* db_api lines 169-193
GetAppQueue(aq, vs, tbl, client_id) ==
    OrderRows({[song_id |-> r.song_id,
                vote_sum |-> VoteSum(vs, r.id),
                client_vote |-> ClientVoteSum(vs, r.id, client_id),
                qid |-> r.id]
                 : r \in {x \in aq : SongExists(tbl, x.song_id)}})

\* api.get_queue -> bl.get_queue -> db.get_app_queue: one SELECT
ListQueue(c) ==
    /\ list_client' = c
    /\ list_ret' = GetAppQueue(app_queue, votes, song, c)
    /\ UNCHANGED <<db_vars, now, admit_vars, voter_vars, tick_vars, loop_vars,
                   req_vars, device>>

\* ------------------------------------------ failures inside a tick
\* line 127 raised or returned False (sqlite3 error): nothing is appended
TickLedgerFail ==
    /\ tick_pc = "L127"
    /\ tick_pc' = "L132"
    /\ UNCHANGED <<db_vars, now, admit_vars, voter_vars, queue, next_song,
                   tick_aq_id, tick_ret, loop_vars, list_vars,
                   req_vars, device>>

TickRemoveFailAborts ==
    /\ tick_pc = "L132"
    /\ tick_pc' = "raised"
    /\ UNCHANGED <<db_vars, now, admit_vars, voter_vars, queue, next_song,
                   tick_aq_id, tick_ret, loop_vars, list_vars,
                   req_vars, device>>

\* lines 131-135: db.remove_song_from_app_queue raised; except: pass
TickRemoveFail ==
    /\ tick_pc = "L132"
    /\ tick_pc' = "L139"
    /\ UNCHANGED <<db_vars, now, admit_vars, voter_vars, queue, next_song,
                   tick_aq_id, tick_ret, loop_vars, list_vars,
                   req_vars, device>>

\* lines 138-141: db.clear_votes raised at its SELECT or at its DELETE
TickClearFail ==
    /\ tick_pc \in {"L139", "L259"}
    /\ tick_pc' = "L146"
    /\ UNCHANGED <<db_vars, now, admit_vars, voter_vars, queue, next_song,
                   tick_aq_id, tick_ret, loop_vars, list_vars,
                   req_vars, device>>

\* lines 144-151: db.set_last_played raised; except: pass; return True
TickSetLastPlayedFail ==
    /\ tick_pc = "L146"
    /\ tick_pc' = "ret151"
    /\ tick_ret' = TRUE
    /\ UNCHANGED <<db_vars, now, admit_vars, voter_vars, queue, next_song,
                   tick_aq_id, loop_vars, list_vars,
                   req_vars, device>>

\* line 108 (db.get_last_added_song_ids) or line 116 (_pick_next_song) raised
\* a store error: nothing in check_sp_queue catches it
TickRaise ==
    /\ tick_pc \in {"L108", "L116"}
    /\ tick_pc' = "raised"
    /\ UNCHANGED <<db_vars, now, admit_vars, voter_vars, queue, next_song,
                   tick_aq_id, tick_ret, loop_vars, list_vars,
                   req_vars, device>>

\* the bookkeeping steps of lines 126-149, each failing
TickBookkeepingFail ==
    \/ TickLedgerFail
    \/ TickRemoveFail
    \/ TickClearFail
    \/ TickSetLastPlayedFail

\* ------------------------------------- the periodic task (api.lifespan)
\* check_sp_queue runs synchronously inside the task: from the call to its
\* return the task stays in its try block (loop_pc = "try", tick_pc not idle)
\* and the event loop runs nothing else, the shutdown half of lifespan included.
LoopTestIgnoresStop ==
    /\ loop_pc = "while"
    /\ loop_pc' = "try"
    /\ UNCHANGED <<db_vars, now, admit_vars, voter_vars, tick_vars, stop_event,
                   lifespan_pc, list_vars,
                   req_vars, device>>

\* line 33: while not stop_event.is_set()
LoopTest ==
    /\ loop_pc = "while"
    /\ loop_pc' = IF stop_event THEN "done" ELSE "try"
    /\ UNCHANGED <<db_vars, now, admit_vars, voter_vars, tick_vars, stop_event,
                   lifespan_pc, list_vars,
                   req_vars, device>>

LoopCallDetached(q) == TickGetQueue(q)

\* line 35: bl.check_sp_queue() is entered
LoopCall(q) == loop_pc = "try" /\ TickGetQueue(q)

LoopResultPropagates ==
    /\ loop_pc = "try"
    /\ tick_pc \in {"ret119", "ret124", "ret151", "ret154", "raised"}
    /\ loop_pc' = IF tick_pc = "raised" THEN "done" ELSE "sleep"
    /\ tick_pc' = "idle"
    /\ queue' = <<>>
    /\ next_song' = None
    /\ tick_aq_id' = None
    /\ tick_ret' = FALSE
    /\ UNCHANGED <<db_vars, now, admit_vars, voter_vars, stop_event, lifespan_pc,
                   list_vars,
                   req_vars, device>>

\* lines 35-39: check_sp_queue returned, or raised into except Exception
LoopResult ==
    /\ loop_pc = "try"
    /\ tick_pc \in {"ret119", "ret124", "ret151", "ret154", "raised"}
    /\ loop_pc' = "sleep"
    /\ tick_pc' = "idle"
    /\ queue' = <<>>
    /\ next_song' = None
    /\ tick_aq_id' = None
    /\ tick_ret' = FALSE
    /\ UNCHANGED <<db_vars, now, admit_vars, voter_vars, stop_event, lifespan_pc,
                   list_vars,
                   req_vars, device>>

\* line 40: await asyncio.sleep(10) is over
LoopSleep ==
    /\ loop_pc = "sleep"
    /\ loop_pc' = "while"
    /\ UNCHANGED <<db_vars, now, admit_vars, voter_vars, tick_vars, stop_event,
                   lifespan_pc, list_vars,
                   req_vars, device>>

\* lines 47-50: the server shuts down while the task is suspended in its sleep
Shutdown ==
    /\ lifespan_pc = "yield"
    /\ loop_pc = "sleep"
    /\ stop_event' = TRUE
    /\ lifespan_pc' = "await_task"
    /\ UNCHANGED <<db_vars, now, admit_vars, voter_vars, tick_vars, loop_pc,
                   list_vars,
                   req_vars, device>>

\* lines 50-51: await task returns
LifespanDone ==
    /\ lifespan_pc = "await_task"
    /\ loop_pc = "done"
    /\ lifespan_pc' = "stopped"
    /\ UNCHANGED <<db_vars, now, admit_vars, voter_vars, tick_vars, loop_pc,
                   stop_event, list_vars,
                   req_vars, device>>

\* ------------------------------------------------- the playback device
\* lines 122-124 with the device on the other side of the adapter:
\* sp.add_song_to_queue succeeded and the track is at the end of its queue
TickPushDevice ==
    /\ tick_pc = "L122"
    /\ tick_pc' = "L127"
    /\ queue' = <<>>
    /\ device' = Append(device, next_song)
    /\ UNCHANGED <<db_vars, now, admit_vars, voter_vars, next_song, tick_aq_id,
                   tick_ret, loop_vars, list_vars, req_vars>>

\* the playing track ends and the next one of the device's queue starts
DeviceAdvance ==
    /\ device # <<>>
    /\ device' = Tail(device)
    /\ UNCHANGED <<db_vars, now, admit_vars, voter_vars, tick_vars, loop_vars,
                   list_vars, req_vars>>

\* nothing is playing and the host starts a track of their own
DevicePlay ==
    /\ device = <<>>
    /\ device' = <<Foreign>>
    /\ UNCHANGED <<db_vars, now, admit_vars, voter_vars, tick_vars, loop_vars,
                   list_vars, req_vars>>

\* --------------------------------- spotify_api: one authorized request
\* the public functions that call _authorized_request
\* Python's None where the other values are strings
Nothing == "None"

ReqOps == {"get_queue", "add_song_to_queue", "search_song"}

\* urlopen raised something that is not an HTTPError (no status)
URLError == 0

Statuses == {200, 204, 401, 404, 429, 500}

Success(status) == status \in {200, 204}

\* the Retry-After header of a 429: absent, or a number of seconds
RetryAfters == {None} \cup (0 .. MaxRetryAfter)

\* _parse_json_response: {} for 204, the parsed body otherwise
ParseJsonResponse(status) == IF status = 204 THEN "empty" ELSE "json"

\* _TokenManager.refresh: the state it leaves and the token it returns
\* (the token endpoint never hands out the token held so far: two token
\* values, taken in turn)
Refresh(state, ok) ==
    LET access_token == IF state.access_token = "token_a" THEN "token_b"
                        ELSE "token_a"
    IN  IF ok THEN [state  |-> [access_token |-> access_token,
                                expires_at   |-> "later"],
                    result |-> access_token]
        ELSE [state |-> state, result |-> Nothing]

\* time passes: the token held comes within SKEW_SECONDS of its expiry
TokenExpires ==
    /\ token.expires_at = "later"
    /\ token' = [token EXCEPT !.expires_at = "due"]
    /\ UNCHANGED <<db_vars, now, admit_vars, voter_vars, tick_vars, loop_vars,
                   list_vars, req_pc, req_op, req_sent, req_status, req_waited,
                   req_ret, device>>

AuthorizedRequest(op) ==
    /\ req_pc = "idle"
    /\ req_pc' = "L184"
    /\ req_op' = op
    /\ req_sent' = 0
    /\ req_status' = <<>>
    /\ req_waited' = 0
    /\ req_ret' = Nothing
    /\ UNCHANGED <<db_vars, now, admit_vars, voter_vars, tick_vars, loop_vars,
                   list_vars, token, device>>

\* line 184: get_token refreshes when the expiry is due or no token is held
GetToken ==
    /\ req_pc = "L184"
    /\ IF token.expires_at = "due" \/ token.access_token = Nothing
       THEN \E ok \in BOOLEAN :
              LET r == Refresh(token, ok)
              IN  /\ token' = r.state
                  /\ req_pc' = IF r.result = Nothing THEN "L252" ELSE "L208"
       ELSE /\ req_pc' = "L208"
            /\ UNCHANGED token
    /\ UNCHANGED <<db_vars, now, admit_vars, voter_vars, tick_vars, loop_vars,
                   list_vars, req_op, req_sent, req_status, req_waited, req_ret,
                   device>>

\* line 208: urlopen(req) and the dispatch on what it raised
SendRequest ==
    /\ req_pc = "L208"
    /\ req_sent' = req_sent + 1
    /\ \E status \in Statuses \cup {URLError} :
         /\ req_status' = Append(req_status, status)
         /\ IF Success(status)
            THEN req_pc' = "L252" /\ req_ret' = ParseJsonResponse(status)
            ELSE /\ req_ret' = Nothing
                 /\ req_pc' = IF status = 401 THEN "L215"
                              ELSE IF status = 429 THEN "L227"
                              ELSE "L252"
    /\ UNCHANGED <<db_vars, now, admit_vars, voter_vars, tick_vars, loop_vars,
                   list_vars, token, req_op, req_waited, device>>

\* lines 213-217, 224: a 401 refreshes the token; req2 is built on success
RefreshAfter401 ==
    /\ req_pc = "L215"
    /\ \E ok \in BOOLEAN :
         LET r == Refresh(token, ok)
         IN  /\ token' = r.state
             /\ req_pc' = IF r.result # Nothing THEN "L219" ELSE "L252"
    /\ UNCHANGED <<db_vars, now, admit_vars, voter_vars, tick_vars, loop_vars,
                   list_vars, req_op, req_sent, req_status, req_waited, req_ret,
                   device>>

\* lines 226-230: a 429 sleeps Retry-After seconds, one second by default
WaitAfter429 ==
    /\ req_pc = "L227"
    /\ \E retry_after \in RetryAfters :
         req_waited' = IF retry_after # None THEN retry_after ELSE 1
    /\ req_pc' = "L232"
    /\ UNCHANGED <<db_vars, now, admit_vars, voter_vars, tick_vars, loop_vars,
                   list_vars, token, req_op, req_sent, req_status, req_ret,
                   device>>

\* a retry that is itself answered 401 or 429 is handled like the first
\* request
RetryRequestAgain ==
    /\ req_pc \in {"L219", "L232"}
    /\ req_sent' = req_sent + 1
    /\ \E status \in Statuses \cup {URLError} :
         /\ req_status' = Append(req_status, status)
         /\ IF Success(status)
            THEN req_pc' = "L252" /\ req_ret' = ParseJsonResponse(status)
            ELSE /\ req_ret' = Nothing
                 /\ req_pc' = IF status = 401 THEN "L215"
                              ELSE IF status = 429 THEN "L227"
                              ELSE "L252"
    /\ UNCHANGED <<db_vars, now, admit_vars, voter_vars, tick_vars, loop_vars,
                   list_vars, token, req_op, req_waited, device>>

\* lines 218-223 and 231-236: the one retry; whatever it raises gives None
RetryRequest ==
    /\ req_pc \in {"L219", "L232"}
    /\ req_sent' = req_sent + 1
    /\ \E status \in Statuses \cup {URLError} :
         /\ req_status' = Append(req_status, status)
         /\ req_ret' = IF Success(status) THEN ParseJsonResponse(status) ELSE Nothing
    /\ req_pc' = "L252"
    /\ UNCHANGED <<db_vars, now, admit_vars, voter_vars, tick_vars, loop_vars,
                   list_vars, token, req_op, req_waited, device>>

\* line 252: the caller has the result
RequestReturn ==
    /\ req_pc = "L252"
    /\ req_pc' = "idle"
    /\ UNCHANGED <<db_vars, now, admit_vars, voter_vars, tick_vars, loop_vars,
                   list_vars, token, req_op, req_sent, req_status, req_waited,
                   req_ret, device>>

\* ------------------------------------------------------- specifications
\* The whole system.
Next ==
    \/ Advance
    \/ \E a \in Admitters : Admission(a)
    \/ Voting
    \/ \E q \in Snapshots : TickGetQueue(q)
    \/ TickBody

Spec == Init /\ [][Next]_vars

\* Admission against the tick: two request threads, the clock, one client
\* casting down-votes (so that the tick does not always take the oldest
\* entry), a device that reports nothing.
NextAdmit ==
    \/ Advance
    \/ \E a \in Admitters : Admission(a)
    \/ \E s \in Songs : VoteResolve(s, 1, -1)
    \/ VoteUpsert
    \/ VoteReturn
    \/ TickGetQueue(<<>>)
    \/ TickBody

SpecAdmit == Init /\ [][NextAdmit]_vars

\* Voting and selection against the tick: one admitting thread, the clock
\* stopped, a device that reports nothing.
NextVote ==
    \/ Admission("a1")
    \/ Voting
    \/ TickGetQueue(<<>>)
    \/ TickBody

SpecVote == Init /\ [][NextVote]_vars

\* The pending-next rule: every device snapshot, the clock, no votes, and
\* requests that arrive between ticks (one admission at a time, none while a
\* tick runs; clear_votes then never finds an entry of the pushed song, so
\* TickClearDelete has no part).
NextTick ==
    \/ Advance
    \/ tick_pc = "idle" /\ Admission("a1")
    \/ admit_pc["a1"] = "idle" /\ \E p \in Payloads : TickGetQueue(SpGetQueue(p))
    \/ TickCheck
    \/ TickPick
    \/ TickPushOk
    \/ TickPushFail
    \/ TickLedger
    \/ TickRemove
    \/ TickClearResolve
    \/ TickSetLastPlayed
    \/ TickReturn

SpecTick == Init /\ [][NextTick]_vars

\* The tick's bookkeeping: requests arrive between ticks (one admission or
\* one vote of one client at a time, none while a tick runs), the clock, a device that
\* reports nothing, a push that succeeds or fails and bookkeeping steps that
\* succeed or fail one by one.
Quiet == tick_pc = "idle" /\ admit_pc["a1"] = "idle" /\ vote_pc = "idle"

NextBook ==
    \/ Advance
    \/ tick_pc = "idle" /\ vote_pc = "idle" /\ Admission("a1")
    \/ Quiet /\ \E s \in Songs, v \in VoteValues : VoteResolve(s, 1, v)
    \/ VoteUpsert
    \/ VoteReturn
    \/ Quiet /\ TickGetQueue(<<>>)
    \/ TickBody
    \/ TickBookkeepingFail

SpecBook == Init /\ [][NextBook]_vars

\* The same without bookkeeping failures (clear_votes then never finds an
\* entry of the pushed song, so TickClearDelete has no part).
NextPlay ==
    \/ Advance
    \/ tick_pc = "idle" /\ vote_pc = "idle" /\ Admission("a1")
    \/ Quiet /\ \E s \in Songs, v \in VoteValues : VoteResolve(s, 1, v)
    \/ VoteUpsert
    \/ VoteReturn
    \/ Quiet /\ TickGetQueue(<<>>)
    \/ TickCheck
    \/ TickPick
    \/ TickPushOk
    \/ TickPushFail
    \/ TickLedger
    \/ TickRemove
    \/ TickClearResolve
    \/ TickSetLastPlayed
    \/ TickReturn

SpecPlay == Init /\ [][NextPlay]_vars

\* Listing: GET /queue at any moment, by client 1 or without X-Client-Id,
\* among admissions, votes of all clients and ticks that come one at a time.
NextList ==
    \/ tick_pc = "idle" /\ vote_pc = "idle" /\ Admission("a1")
    \/ Quiet /\ \E s \in Songs, c \in Clients, v \in VoteValues : VoteResolve(s, c, v)
    \/ VoteUpsert
    \/ VoteReturn
    \/ \E c \in {1, None} : ListQueue(c)
    \/ Quiet /\ TickGetQueue(<<>>)
    \/ TickCheck
    \/ TickPick
    \/ TickPushOk
    \/ TickPushFail
    \/ TickLedger
    \/ TickRemove
    \/ TickClearResolve
    \/ TickSetLastPlayed
    \/ TickReturn

SpecList == Init /\ [][NextList]_vars

\* The periodic task: the loop of periodic_check around the tick, with store
\* errors raised out of the tick, a push that fails, bookkeeping steps that
\* fail, the shutdown, and one admitting thread.  Admissions stop one short of
\* MaxLedger, so that the cap on the ledger never keeps a tick from starting.
LoopTask ==
    \/ LoopTest
    \/ \E q \in {<<>>} : LoopCall(q)
    \/ LoopResult
    \/ LoopSleep
    \/ TickCheck
    \/ TickPick
    \/ TickPushOk
    \/ TickPushFail
    \/ TickLedger
    \/ TickRemove
    \/ TickClearResolve
    \/ TickClearDelete
    \/ TickSetLastPlayed
    \/ TickLedgerFail
    \/ TickClearFail
    \/ TickSetLastPlayedFail
    \/ TickRaise
    \/ LifespanDone

NextLoop ==
    \/ LoopTask
    \/ Shutdown
    \/ (admit_pc["a1"] # "idle" \/ app_queue_seq + 1 < MaxLedger) /\ Admission("a1")

\* every call the task makes returns (urlopen and sqlite3 have timeouts, the
\* sleep ends), and the event loop runs the task while it can run
SpecLoop == Init /\ [][NextLoop]_vars /\ WF_vars(LoopTask)

\* The catalog: the requests and ticks of NextPlay, and GET /queue.
NextSong ==
    \/ NextPlay
    \/ \E c \in {1, None} : ListQueue(c)

SpecSong == Init /\ [][NextSong]_vars

\* One adapter call after another, with the token ageing in between.
NextRequest ==
    \/ TokenExpires
    \/ \E op \in ReqOps : AuthorizedRequest(op)
    \/ GetToken
    \/ SendRequest
    \/ RefreshAfter401
    \/ WaitAfter429
    \/ RetryRequest
    \/ RequestReturn

SpecRequest == Init /\ [][NextRequest]_vars


\* The queue against the device: the periodic task reads the device's own
\* queue, every push reaches the device and every bookkeeping step succeeds,
\* the device plays track after track, one thread admits songs (MaxQid
\* admissions at most, so admissions end), the clock stands still.
DrainTask ==
    \/ LoopTest
    \/ LoopCall(device)
    \/ LoopResult
    \/ LoopSleep
    \/ TickCheck
    \/ TickPick
    \/ TickPushDevice
    \/ TickLedger
    \/ TickRemove
    \/ TickClearResolve
    \/ TickClearDelete
    \/ TickSetLastPlayed

NextDrain ==
    \/ DrainTask
    \/ DeviceAdvance
    \/ DevicePlay
    \/ Admission("a1")

\* the task keeps running (as in SpecLoop) and the device keeps advancing
SpecDrain ==
    Init /\ [][NextDrain]_vars /\ WF_vars(DrainTask) /\ WF_vars(DeviceAdvance)

\* ----------------------------------------------------------------- claims
Queued(s) == \E r \in app_queue : r.song_id = s

\* the vote of client c on the entry e, 0 when c has not voted on it
ClientVote(e, c) ==
    IF \E v \in votes : v.app_queue_id = e /\ v.client_id = c
    THEN (CHOOSE v \in votes : v.app_queue_id = e /\ v.client_id = c).vote
    ELSE 0

RECURSIVE SumOverClients(_, _)
SumOverClients(e, n) == IF n = 0 THEN 0 ELSE ClientVote(e, n) + SumOverClients(e, n - 1)

EntryVoteSum(e) == SumOverClients(e, NumClients)

\* C1: Selection returns nothing iff the queue is empty; when a vote exists it
\* returns the song of the entry with the greatest vote sum, the smallest
\* ordinal among equal sums; when no vote exists it returns the song of the
\* entry with the smallest ordinal.
C1_Selection ==
    LET sel == PickNextSong(app_queue, votes, song)
    IN  /\ (sel = None) <=> (app_queue = {})
        /\ app_queue # {} /\ votes # {} =>
             \E e \in app_queue :
                /\ e.song_id = sel
                /\ \A o \in app_queue :
                      \/ EntryVoteSum(e.id) > EntryVoteSum(o.id)
                      \/ EntryVoteSum(e.id) = EntryVoteSum(o.id) /\ e.id <= o.id
        /\ app_queue # {} /\ votes = {} =>
             \E e \in app_queue :
                /\ e.song_id = sel
                /\ \A o \in app_queue : e.id <= o.id

\* the tick has just selected, among two entries tied on a non-zero vote sum,
\* the older one
C1_Witness ==
    /\ tick_pc = "L122"
    /\ next_song = PickNextSong(app_queue, votes, song)
    /\ \E e, o \in app_queue :
          /\ e.id < o.id
          /\ e.song_id = next_song
          /\ EntryVoteSum(e.id) = EntryVoteSum(o.id)
          /\ EntryVoteSum(e.id) # 0

\* C2: at most one active QueueEntry per Song identifier, in every reachable
\* state.
C2_OneEntryPerSong ==
    \A r1, r2 \in app_queue : r1.song_id = r2.song_id => r1 = r2

\* an admission that passed the membership check lost the insert to the
\* uniqueness constraint
C2_Witness ==
    \E a \in Admitters :
        /\ admit_pc[a] = "ret49"
        /\ ~ admit_ret[a]
        /\ Cardinality({r \in app_queue : r.song_id = admit_song[a]}) = 1

\* C3: an admission whose membership check finds the Song queued returns false
\* there and then, and the step changes no table (queue, ordinals, votes,
\* ledger, last_played).
C3_DuplicateRejected ==
    [][\A a \in Admitters :
          (admit_pc[a] = "check_in_queue" /\ admit_pc'[a] # "check_in_queue"
              /\ Queued(admit_song[a]))
          => /\ admit_pc'[a] = "ret40"
             /\ admit_ret'[a] = FALSE
             /\ UNCHANGED db_vars]_vars

C3_Witness ==
    \E a \in Admitters :
        /\ admit_pc[a] = "ret40"
        /\ ~ admit_ret[a]
        /\ Cardinality({r \in app_queue : r.song_id = admit_song[a]}) = 1

\* C4: replay-guard boundary.  An admission that reaches the guard with
\* last_played set and now - last_played below 30 minutes returns false and
\* changes nothing; with last_played null or now - last_played of 30 minutes or
\* more (30 minutes exactly included) it goes on to insert, and the insert of
\* a Song that is not queued creates the entry and returns true.
C4_ReplayBoundary ==
    [][\A a \in Admitters :
          /\ (admit_pc[a] = "replay_guard" /\ admit_pc'[a] # "replay_guard")
             => IF admit_last_played[a] # None
                   /\ now - admit_last_played[a] < 30 * 60 * Res
                THEN /\ admit_pc'[a] = "ret46"
                     /\ admit_ret'[a] = FALSE
                     /\ UNCHANGED db_vars
                ELSE admit_pc'[a] = "queue_insert"
          /\ (admit_pc[a] = "queue_insert" /\ admit_pc'[a] # "queue_insert"
                 /\ ~ Queued(admit_song[a]))
             => /\ admit_pc'[a] = "ret49"
                /\ admit_ret'[a] = TRUE
                /\ \E r \in app_queue' \ app_queue : r.song_id = admit_song[a]]_vars

\* an admission was accepted exactly 30 minutes after the recorded play
C4_Witness ==
    \E a \in Admitters :
        /\ admit_pc[a] = "ret49"
        /\ admit_ret[a]
        /\ admit_last_played[a] # None
        /\ admit_now_utc[a] - admit_last_played[a] = 30 * 60 * Res

\* the last_played column of song s, None when unset or when s is not in the
\* catalog
LastPlayedOf(s) ==
    IF \E r \in song : r.id = s
    THEN FromUtcIso((CHOOSE r \in song : r.id = s).last_played)
    ELSE None

\* C5: whenever an admission creates a QueueEntry, the Song's last_played is
\* at that moment null or at least 30 minutes old, under every interleaving
\* with the tick.
C5_ReplayGuardAtInsert ==
    [][\A a \in Admitters :
          (admit_pc[a] = "queue_insert" /\ admit_pc'[a] = "ret49" /\ admit_ret'[a])
          => \/ LastPlayedOf(admit_song[a]) = None
             \/ now - LastPlayedOf(admit_song[a]) >= 30 * 60 * Res]_vars

\* C6: votes are last-write-wins per (entry, client): one row per key, a
\* successful vote leaves exactly the value cast in the row of its key and no
\* other row changed, and the vote sum of an entry is the sum over the
\* clients of their current votes.
C6_LastWriteWins ==
    /\ [](/\ \A v1, v2 \in votes :
                (v1.app_queue_id = v2.app_queue_id /\ v1.client_id = v2.client_id)
                => v1 = v2
          /\ \A e \in app_queue : VoteSum(votes, e.id) = EntryVoteSum(e.id))
    /\ [][(vote_pc = "upsert" /\ vote_pc' = "ret223")
          => /\ vote_ret'
             /\ \E v \in votes' :
                   /\ v.app_queue_id = vote_aq_id
                   /\ v.client_id = vote_client
                   /\ v.vote = vote_value
             /\ \A v \in votes' :
                   (v.app_queue_id = vote_aq_id /\ v.client_id = vote_client)
                   => v.vote = vote_value
             /\ {v \in votes' :
                   ~ (v.app_queue_id = vote_aq_id /\ v.client_id = vote_client)}
                = {v \in votes :
                   ~ (v.app_queue_id = vote_aq_id /\ v.client_id = vote_client)}]_vars

\* a vote was stored on an entry that carries the votes of both clients, one
\* of them beyond +-1
C6_Witness ==
    /\ vote_pc = "ret223"
    /\ vote_ret
    /\ \E v1, v2 \in votes :
          /\ v1.app_queue_id = vote_aq_id
          /\ v2.app_queue_id = vote_aq_id
          /\ v1.client_id # v2.client_id
          /\ v1.client_id = vote_client
          /\ v1.vote = MaxVote
          /\ v2.vote = -1

\* C7: a vote on a Song with no QueueEntry returns false and changes nothing;
\* a vote on a queued Song returns true.
C7_VoteOutcome ==
    [][/\ (vote_pc = "idle" /\ vote_pc' # "idle" /\ ~ Queued(vote_song'))
          => /\ vote_pc' = "ret211"
             /\ vote_ret' = FALSE
             /\ UNCHANGED db_vars
       /\ (vote_pc = "upsert" /\ vote_pc' # "upsert")
          => /\ vote_pc' = "ret223"
             /\ vote_ret' = TRUE]_vars

\* the two most recent ledger identifiers, most recent first
Ledger2 == GetLastAddedSongIds(last_added_songs, 2)

\* a tick whose check lets it through reaches the push with the candidate
\* Selection returns
PushesSelected ==
    (tick_pc = "L116" /\ tick_pc' # "L116" /\ app_queue # {})
    => /\ tick_pc' = "L122"
       /\ next_song' = PickNextSong(app_queue, votes, song)
       /\ next_song' # None

\* the two most recent ledger identifiers are both present in the snapshot
BothPresent ==
    /\ Len(last_added_songs) >= 2
    /\ Ledger2[1] \in Range(queue)
    /\ Ledger2[2] \in Range(queue)

\* the two most recent ledger records are matched by two separate snapshot items
BothMatched ==
    /\ Len(last_added_songs) >= 2
    /\ \E i, j \in DOMAIN queue :
          i # j /\ queue[i] = Ledger2[1] /\ queue[j] = Ledger2[2]

\* C8 as stated: with 0 or 1 ledger record and a non-empty queue a tick always
\* attempts the push of the selected candidate; with 2 or more ledger records
\* whose two most recent identifiers are both present in the snapshot it
\* pushes nothing.
C8_Original ==
    [][/\ (tick_pc = "L108" /\ tick_pc' # "L108" /\ Len(last_added_songs) <= 1)
          => tick_pc' = "L116"
       /\ PushesSelected
       /\ (tick_pc = "L122" /\ tick_pc' = "L127") => ~ BothPresent]_vars

\* C8, amended: with 0 or 1 ledger record and a non-empty queue a tick always
\* attempts the push of the selected candidate; with 2 or more ledger records
\* whose two most recent records are matched by two separate items of the
\* snapshot it pushes nothing, changes no table and reports no action.
C8_PendingNext ==
    [][/\ (tick_pc = "L108" /\ tick_pc' # "L108" /\ Len(last_added_songs) <= 1)
          => tick_pc' = "L116"
       /\ PushesSelected
       /\ (tick_pc = "L108" /\ tick_pc' # "L108" /\ BothMatched)
          => /\ tick_pc' = "ret154"
             /\ tick_ret' = FALSE
             /\ UNCHANGED db_vars
       /\ (tick_pc = "L122" /\ tick_pc' = "L127") => ~ BothMatched]_vars

\* a tick has skipped on two ledger records matched in the snapshot while a
\* song was waiting in the queue
C8_Witness ==
    /\ tick_pc = "ret154"
    /\ ~ tick_ret
    /\ BothMatched
    /\ app_queue # {}

\* C9: a tick proceeds to select and inject iff fewer than 2 ledger records
\* exist or fewer than 2 distinct identifiers among the first two snapshot
\* items appear among the last 2 ledger identifiers.
C9_ExactRule ==
    [][(tick_pc = "L108" /\ tick_pc' # "L108")
       => LET S == {queue[i] : i \in {j \in DOMAIN queue : j <= 2}}
          IN  (tick_pc' = "L116")
              <=> \/ Len(last_added_songs) < 2
                  \/ Cardinality(S \cap Range(Ledger2)) < 2]_vars

\* C10: a tick adds a song to the device only when the snapshot holds no next
\* song (at most the playing one); with two or more songs in the snapshot it
\* pushes nothing.
C10_Docstring ==
    [][(tick_pc = "L122" /\ tick_pc' = "L127") => Len(queue) <= 1]_vars

\* C11: a tick whose push fails returns False and no step of it has written
\* a table (ledger, queue, votes, last_played as before the tick); the
\* candidate it held is the one Selection returns on the tables it leaves
\* behind, and the next tick, which reads the tables untouched when no request
\* came in between, selects by the same function.
C11_PushFailure ==
    /\ [][/\ (tick_pc = "L122" /\ tick_pc' \notin {"L122", "L127"})
             => /\ tick_pc' = "ret124"
                /\ tick_ret' = FALSE
                /\ UNCHANGED db_vars
          /\ (tick_pc \in {"idle", "L108", "L116", "ret124"} /\ tick_pc' # tick_pc)
             => UNCHANGED db_vars
          /\ (tick_pc = "L116" /\ tick_pc' # "L116")
             => next_song' = PickNextSong(app_queue, votes, song)]_vars
    /\ [](tick_pc = "ret124" => next_song = PickNextSong(app_queue, votes, song))

\* a push failed, after an earlier successful one, for a candidate chosen by
\* its votes over an older entry
C11_Witness ==
    /\ tick_pc = "ret124"
    /\ ~ tick_ret
    /\ last_added_songs # <<>>
    /\ \E e, o \in app_queue :
          /\ o.id < e.id
          /\ e.song_id = next_song
          /\ EntryVoteSum(e.id) > EntryVoteSum(o.id)

\* what a successful tick leaves behind, the value of last_played apart: it
\* reports True; the pushed Song has no QueueEntry and no Vote is left without
\* its entry; the most recent ledger record is the pushed Song; every step
\* after the push keeps the other entries with their ordinals and votes, the
\* ordinal counter and the other Songs' last_played.
C12_Effects ==
    /\ [](tick_pc = "ret151"
          => /\ tick_ret
             /\ ~ Queued(next_song)
             /\ \A v \in votes : \E e \in app_queue : e.id = v.app_queue_id
             /\ last_added_songs # <<>>
             /\ last_added_songs[Len(last_added_songs)] = next_song)
    /\ [][(tick_pc \in {"L127", "L132", "L139", "L146"} /\ tick_pc' # tick_pc)
          => /\ app_queue' \subseteq app_queue
             /\ \A e \in app_queue : e.song_id # next_song => e \in app_queue'
             /\ votes' \subseteq votes
             /\ \A v \in votes :
                   (\E e \in app_queue :
                       e.id = v.app_queue_id /\ e.song_id # next_song)
                   => v \in votes'
             /\ app_queue_seq' = app_queue_seq
             /\ \A s \in Songs \ {next_song} : LastPlayedOf(s)' = LastPlayedOf(s)
             /\ \A r \in song : \E r2 \in song' : r2.id = r.id]_vars

\* C12 as stated: after a tick whose push and bookkeeping succeed, with no
\* concurrent admission of the same Song, the effects above hold and the
\* Song's last_played equals the timestamp the tick took.
C12_Original ==
    /\ C12_Effects
    /\ [][(tick_pc = "L146" /\ tick_pc' = "ret151")
          => LastPlayedOf(next_song)' = now]_vars

\* C12, amended: the effects above hold and the Song's last_played equals the
\* timestamp the tick took, cut to whole seconds.
C12_AfterInjection ==
    /\ C12_Effects
    /\ [][(tick_pc = "L146" /\ tick_pc' = "ret151")
          => /\ LastPlayedOf(next_song)' = (now \div Res) * Res
             /\ now - LastPlayedOf(next_song)' < Res]_vars

\* a successful tick has pushed a Song a fraction of a second past a whole
\* second, while another entry with a vote stays queued
C12_Witness ==
    /\ tick_pc = "ret151"
    /\ tick_ret
    /\ LastPlayedOf(next_song) # None
    /\ LastPlayedOf(next_song) < now
    /\ now - LastPlayedOf(next_song) < Res
    /\ \E e \in app_queue : EntryVoteSum(e.id) # 0

\* C13: after a successful push every bookkeeping step is attempted whatever
\* became of the steps before it: from each of them control goes on to the
\* next (never out of the tick with an error), the step either takes its
\* whole effect or, failing, writes nothing, and the tick ends reporting True.
C13_BestEffort ==
    /\ [](tick_pc # "raised")
    /\ [][/\ (tick_pc = "L127" /\ tick_pc' # tick_pc)
             => /\ tick_pc' = "L132"
                /\ \/ /\ last_added_songs' = Append(last_added_songs, next_song)
                      /\ UNCHANGED <<song, app_queue, app_queue_seq, votes>>
                   \/ UNCHANGED db_vars
          /\ (tick_pc = "L132" /\ tick_pc' # tick_pc)
             => /\ tick_pc' = "L139"
                /\ \/ /\ ~ Queued(next_song)'
                      /\ UNCHANGED <<song, app_queue_seq, last_added_songs>>
                   \/ UNCHANGED db_vars
          /\ (tick_pc = "L139" /\ tick_pc' # tick_pc)
             => tick_pc' \in {"L259", "L146"} /\ UNCHANGED db_vars
          /\ (tick_pc = "L259" /\ tick_pc' # tick_pc)
             => /\ tick_pc' = "L146"
                /\ UNCHANGED <<song, app_queue, app_queue_seq, last_added_songs>>
          /\ (tick_pc = "L146" /\ tick_pc' # tick_pc)
             => /\ tick_pc' = "ret151"
                /\ tick_ret' = TRUE
                /\ \/ /\ LastPlayedOf(next_song)' = (now \div Res) * Res
                      /\ UNCHANGED <<app_queue, app_queue_seq, votes,
                                     last_added_songs>>
                   \/ UNCHANGED db_vars]_vars

\* a tick reports True after its removal failed (the Song is still queued)
\* while the ledger append and the last_played update that came before and
\* after it took effect
C13_Witness ==
    /\ tick_pc = "ret151"
    /\ tick_ret
    /\ Queued(next_song)
    /\ last_added_songs # <<>>
    /\ last_added_songs[Len(last_added_songs)] = next_song
    /\ now > 0
    /\ LastPlayedOf(next_song) = (now \div Res) * Res

\* a Song that is queued although its recorded play is less than 30 minutes
\* old: with requests arriving between ticks, the entry of a Song whose removal
\* failed after the push
Leftover(s) ==
    /\ Queued(s)
    /\ LastPlayedOf(s) # None
    /\ now - LastPlayedOf(s) < Window

\* C14: when the removal of the pushed Song's entry failed, the tick leaves
\* the votes of that entry as they are (clear_votes deletes nothing), and no
\* later tick pushes the Song while that entry is still there.
C14_RemovalFailure ==
    [][/\ (tick_pc \in {"L139", "L259"} /\ tick_pc' # tick_pc) => UNCHANGED votes
       /\ (tick_pc = "L122" /\ tick_pc' = "L127") => ~ Leftover(next_song)]_vars

\* the list l is the queue as client c is to see it
Listing(l, c) ==
    /\ Len(l) = Cardinality(app_queue)
    /\ \A e \in app_queue :
          \E i \in DOMAIN l :
             /\ l[i].song_id = e.song_id
             /\ l[i].vote_sum = EntryVoteSum(e.id)
             /\ l[i].client_vote = ClientVote(e.id, c)
    /\ \A i, j \in DOMAIN l :
          i < j =>
             \/ l[i].vote_sum > l[j].vote_sum
             \/ /\ l[i].vote_sum = l[j].vote_sum
                /\ GetAppQueueId(app_queue, l[i].song_id)
                      < GetAppQueueId(app_queue, l[j].song_id)

C16_RaceSafe ==
    /\ [](\A r1, r2 \in song : r1.id = r2.id => r1 = r2)
    /\ [][\A a \in Admitters :
             (admit_song[a] # None /\ admit_pc'[a] # admit_pc[a])
             => admit_pc'[a] # "raised"]_vars

\* C17: at most one tick is in progress: while check_sp_queue runs the task
\* is inside the call it made, and a tick starts only from the task's call,
\* after the previous tick has returned or raised.
C17_SingleFlight ==
    /\ [](tick_pc # "idle" => loop_pc = "try")
    /\ [][(tick_pc = "idle" /\ tick_pc' # "idle")
          => loop_pc = "try" /\ loop_pc' = "try"]_vars
    /\ [][(loop_pc = "sleep" /\ loop_pc' # "sleep") => tick_pc = "idle"]_vars

\* a second tick is in progress, after a first one that pushed
C17_Witness ==
    /\ tick_pc = "L122"
    /\ loop_pc = "try"
    /\ last_added_songs # <<>>

\* a tick has ended: check_sp_queue has returned or raised
TickOver == tick_pc \in {"ret119", "ret124", "ret151", "ret154", "raised"}

\* C18: the task ends only on the stop signal, and after every tick, however
\* it ended, a further tick starts unless the stop signal is set.
C18_LoopContinues ==
    /\ [](loop_pc = "done" => stop_event)
    /\ (TickOver ~> (stop_event \/ tick_pc = "L108"))

\* a tick raised a store error after an earlier tick had pushed
C18_Witness ==
    /\ tick_pc = "raised"
    /\ loop_pc = "try"
    /\ ~ stop_event
    /\ last_added_songs # <<>>

\* C19: once the stop signal is set no tick is in progress and none begins,
\* the task ends and the shutdown completes.
C19_Shutdown ==
    /\ [](stop_event => tick_pc = "idle")
    /\ (stop_event ~> lifespan_pc = "stopped")

\* the shutdown has completed after a tick that pushed, with a Song still
\* queued
C19_Witness ==
    /\ lifespan_pc = "stopped"
    /\ loop_pc = "done"
    /\ last_added_songs # <<>>
    /\ app_queue # {}

\* C20: no step deletes a Song from the catalog, and a Song's last_played
\* changes only in the step of a tick that follows its successful push of
\* that Song (line 146), never to an earlier value; admissions, votes,
\* listings and ticks that push nothing leave every last_played as it is.
C20_LastPlayedFrame ==
    [][\A r \in song :
          \E r2 \in song' :
             /\ r2.id = r.id
             /\ r2.last_played # r.last_played
                => /\ tick_pc = "L146" /\ tick_pc' = "ret151"
                   /\ r.id = next_song
                   /\ r.last_played = None \/ r2.last_played >= r.last_played]_vars

\* a Song was played a second time, 30 minutes after the first, and the queue
\* was listed in between
C20_Witness ==
    /\ tick_pc = "ret151"
    /\ Len(last_added_songs) >= 2
    /\ last_added_songs[Len(last_added_songs)] = next_song
    /\ last_added_songs[Len(last_added_songs) - 1] = next_song
    /\ LastPlayedOf(next_song) = Window
    /\ list_ret # <<>>
    /\ \E r \in song : r.id # next_song /\ r.last_played = None

\* ---------------------------------------------------------------------
\* C21  Insertion ordinals grow over the whole history: the ordinal
\* counter never decreases, no entry carries an ordinal above it, and
\* every entry a step creates gets an ordinal greater than every ordinal
\* handed out before (those of removed entries included) and so greater
\* than the ordinal of every entry queued at that moment.
C21_Ordinals ==
    [][ /\ app_queue_seq' >= app_queue_seq
        /\ \A e \in app_queue' : e.id <= app_queue_seq'
        /\ \A e \in app_queue' \ app_queue :
              /\ e.id > app_queue_seq
              /\ \A o \in app_queue : o.id < e.id ]_vars

\* A song that was pushed and removed is queued again, behind an entry
\* that was already waiting, two ordinals after its first entry.
C21_Witness ==
    \E e \in app_queue, o \in app_queue :
        /\ e.song_id \in Range(last_added_songs)
        /\ o.song_id # e.song_id
        /\ o.id < e.id
        /\ e.id = app_queue_seq
        /\ app_queue_seq = MaxQid

\* ---------------------------------------------------------------------
\* db.clear_votes as one call: resolve the entry of the song, delete its votes
ClearVotesOfSong(aq, vs, song_id) ==
    LET aq_id == GetAppQueueId(aq, song_id)
    IN  IF aq_id = None THEN vs ELSE ClearVotes(vs, aq_id)

\* the persisted state after db.remove_song_from_app_queue(song_id)
AfterRemove(st, song_id) ==
    LET aq == RemoveSongFromAppQueue(st.app_queue, song_id)
    IN  [st EXCEPT !.app_queue = aq, !.votes = CascadeVotes(st.votes, aq)]

\* the persisted state after db.clear_votes(song_id)
AfterClearVotes(st, song_id) ==
    [st EXCEPT !.votes = ClearVotesOfSong(st.app_queue, st.votes, song_id)]

\* the persisted state after db.set_last_played(song_id, t)
AfterSetLastPlayed(st, song_id, t) ==
    [st EXCEPT !.song = SetLastPlayed(st.song, song_id, t)]

\* the persisted state after db.add_last_added_song_id(song_id)
AfterLedgerAppend(st, song_id) ==
    [st EXCEPT !.last_added_songs =
                    AddLastAddedSongId(st.last_added_songs, st.song, song_id)]

Persisted ==
    [song |-> song, app_queue |-> app_queue, votes |-> votes,
     last_added_songs |-> last_added_songs]

\* C22 (as stated)  Every mutation of a tick is idempotent: in every
\* reachable state, for every song and timestamp, applying the ledger
\* append, the entry removal, the vote clearing or the last_played update
\* twice leaves the same persisted state as applying it once.
C22_Original ==
    \A s \in Songs, t \in Instants :
        /\ AfterLedgerAppend(AfterLedgerAppend(Persisted, s), s)
              = AfterLedgerAppend(Persisted, s)
        /\ AfterRemove(AfterRemove(Persisted, s), s) = AfterRemove(Persisted, s)
        /\ AfterClearVotes(AfterClearVotes(Persisted, s), s)
              = AfterClearVotes(Persisted, s)
        /\ AfterSetLastPlayed(AfterSetLastPlayed(Persisted, s, t), s, t)
              = AfterSetLastPlayed(Persisted, s, t)

\* C22 (amended)  Entry removal, vote clearing and the last_played update
\* are idempotent: applied twice with the same arguments they leave the
\* persisted state they leave when applied once.  The ledger append is
\* not: for a song of the catalog every application adds one more record.
C22_Idempotent ==
    \A s \in Songs, t \in Instants :
        /\ AfterRemove(AfterRemove(Persisted, s), s) = AfterRemove(Persisted, s)
        /\ AfterClearVotes(AfterClearVotes(Persisted, s), s)
              = AfterClearVotes(Persisted, s)
        /\ AfterSetLastPlayed(AfterSetLastPlayed(Persisted, s, t), s, t)
              = AfterSetLastPlayed(Persisted, s, t)
        /\ SongExists(song, s) =>
              Len(AfterLedgerAppend(AfterLedgerAppend(Persisted, s), s)
                      .last_added_songs)
                = Len(last_added_songs) + 2

\* A tick has appended to the ledger and is about to remove the entry of
\* the pushed song, which carries a vote, while another entry with a vote
\* waits: each of the four mutations changes this state when applied once.
C22_Witness ==
    /\ tick_pc = "L132"
    /\ last_added_songs # <<>>
    /\ next_song \in Songs
    /\ AfterRemove(Persisted, next_song) # Persisted
    /\ AfterClearVotes(Persisted, next_song) # Persisted
    /\ AfterSetLastPlayed(Persisted, next_song, now) # Persisted
    /\ AfterLedgerAppend(Persisted, next_song) # Persisted
    /\ \E e \in app_queue :
          e.song_id # next_song /\ \E v \in votes : v.app_queue_id = e.id

\* ---------------------------------------------------------------------
\* C23  One adapter call sends at most two requests to the API: the first,
\* and at most one retry.  A retry is sent only after a first answer of 401
\* whose token refresh succeeded, or after a first answer of 429; whatever
\* the retry is answered, the call returns right after it, with None unless
\* the answer was a success.  Any other failure of the first request ends
\* the call with None and one request sent.
C23_RetryBound ==
    /\ [](/\ req_sent = Len(req_status)
          /\ req_sent <= 2
          /\ req_sent = 2 => req_status[1] \in {401, 429}
          /\ req_pc \in {"L219", "L232"} => req_sent = 1
          /\ req_pc = "L252" /\ req_sent >= 1 =>
                /\ ~Success(req_status[req_sent]) => req_ret = Nothing
                /\ req_sent = 1 => req_status[1] \notin {429}
          /\ req_pc = "L252" /\ req_sent = 0 => req_ret = Nothing)
    /\ [][/\ req_sent' # req_sent =>
                \/ req_sent' = req_sent + 1 /\ req_pc \in {"L208", "L219", "L232"}
                \/ req_sent' = 0 /\ req_pc = "idle"
          /\ req_pc \in {"L219", "L232"} /\ req_pc' # req_pc => req_pc' = "L252"
          /\ req_pc' = "L219" /\ req_pc # "L219" =>
                /\ req_status[1] = 401
                /\ token' = Refresh(token, TRUE).state
                /\ token' # token
          /\ req_pc' = "L232" /\ req_pc # "L232" => req_status[1] = 429
          /\ req_pc = "L215" /\ token' = token /\ req_pc' # req_pc =>
                req_pc' = "L252" /\ req_ret' = Nothing /\ req_sent' = 1
         ]_vars

\* A call is about to return None after a 401, a token refresh and a retry
\* that was answered 429.
C23_Witness ==
    /\ req_pc = "L252"
    /\ req_status = <<401, 429>>
    /\ req_sent = 2
    /\ req_ret = Nothing

\* ---------------------------------------------------------------------
\* C24  Votes never outlive their entry.  In every reachable state every
\* vote row names an entry that is in the queue; a step that removes an
\* entry leaves no vote of it; a step that creates an entry (a first or a
\* repeated admission of its song) leaves it without votes, vote_sum 0.
C24_VotesBelong ==
    /\ [](\A v \in votes : \E e \in app_queue : e.id = v.app_queue_id)
    /\ [][/\ \A e \in app_queue \ app_queue' :
                \A v \in votes' : v.app_queue_id # e.id
          /\ \A e \in app_queue' \ app_queue :
                /\ \A v \in votes' : v.app_queue_id # e.id
                /\ VoteSum(votes', e.id) = 0
         ]_vars

\* A vote resolved the entry of a song, the tick removed that entry before
\* the vote was written, and the write was rejected; the song has been
\* admitted again meanwhile and its new entry has no votes.
C24_Witness ==
    /\ vote_pc = "raised"
    /\ vote_aq_id # None
    /\ \A e \in app_queue : e.id # vote_aq_id
    /\ \E e \in app_queue :
          /\ e.song_id = vote_song
          /\ e.id > vote_aq_id
          /\ VoteSum(votes, e.id) = 0
    /\ votes # {}

\* ---------------------------------------------------------------------
\* the statements of a tick that follow a successful push
AfterPush == {"L127", "L132", "L139", "L259", "L146", "ret151"}

\* C25  One push per tick, one ledger record and one removal per push.
\* A tick passes the push statement once: it is reached from selection
\* only, left for the ledger step (success) or the return (failure), and
\* not reached again before the tick is over.  The ledger changes only by
\* the append of one record, made by the step after a successful push and
\* naming the song that was pushed; no other step writes it.  Entries
\* leave the queue only in a tick's removal step, at most one per tick, and
\* the entry is that of the pushed song.
C25_OnePushPerTick ==
    [][/\ tick_pc' = "L122" /\ tick_pc # "L122" => tick_pc = "L116"
       /\ tick_pc = "L122" /\ tick_pc' # "L122" =>
             tick_pc' \in {"L127", "ret124"}
       /\ tick_pc' = "L127" /\ tick_pc # "L127" => tick_pc = "L122"
       /\ tick_pc \in AfterPush \cup {"ret124"} =>
             tick_pc' \in AfterPush \cup {"ret124", "idle"}
       /\ tick_pc \in AfterPush \cup {"L122"} /\ tick_pc' # "idle" =>
             next_song' = next_song
       /\ last_added_songs' # last_added_songs =>
             /\ tick_pc = "L127" /\ tick_pc' = "L132"
             /\ last_added_songs' = Append(last_added_songs, next_song)
       /\ app_queue \ app_queue' # {} =>
             /\ tick_pc = "L132" /\ tick_pc' = "L139"
             /\ app_queue' \subseteq app_queue
             /\ Cardinality(app_queue \ app_queue') = 1
             /\ \A e \in app_queue \ app_queue' : e.song_id = next_song
      ]_vars

\* A tick has pushed a song, appended the second record of the ledger and
\* removed the song's entry; another entry is still waiting.
C25_Witness ==
    /\ tick_pc = "L139"
    /\ Len(last_added_songs) >= 2
    /\ last_added_songs[Len(last_added_songs)] = next_song
    /\ ~Queued(next_song)
    /\ app_queue # {}

\* ---------------------------------------------------------------------
\* C26  Selection is the head of the listing.  In every reachable state
\* with a non-empty queue, the song _pick_next_song returns is the song of
\* the first item get_queue lists, for every client and for none, whether
\* votes exist or not; with an empty queue both are empty.  The selection
\* step of a tick takes that song and writes nothing to the tables.
C26_SelectionIsHead ==
    /\ [](\A c \in Clients \cup {None} :
            LET l == GetAppQueue(app_queue, votes, song, c)
            IN  IF app_queue = {}
                THEN l = <<>> /\ PickNextSong(app_queue, votes, song) = None
                ELSE /\ l # <<>>
                     /\ l[1].song_id = PickNextSong(app_queue, votes, song))
    /\ [][tick_pc = "L116" /\ tick_pc' # tick_pc =>
             /\ next_song' = PickNextSong(app_queue, votes, song)
             /\ UNCHANGED db_vars
         ]_vars

\* A tick has selected a song that is not the oldest entry, because of the
\* votes, and the list a client was given just before starts with it.
C26_Witness ==
    /\ tick_pc = "L122"
    /\ votes # {}
    /\ \E e \in app_queue, o \in app_queue :
          e.song_id = next_song /\ o.id < e.id
    /\ list_ret # <<>>
    /\ list_ret[1].song_id = next_song
    /\ list_ret = GetAppQueue(app_queue, votes, song, list_client)

\* ---------------------------------------------------------------------
\* C27  A failed snapshot fetch is an empty snapshot.  sp.get_queue turns
\* a failed request into the list it returns for a device that reports
\* nothing; for that list the pending-next rule finds the slot empty
\* whatever the ledger holds; so a tick that read it goes on to selection,
\* and with a non-empty queue on to the push of the selected song.
C27_FailedFetch ==
    /\ [](/\ SpGetQueue(FailedFetch) = SpGetQueue([failed |-> FALSE, items |-> <<>>])
          /\ NextSlotEmpty(SpGetQueue(FailedFetch),
                           GetLastAddedSongIds(last_added_songs, 2)))
    /\ [][/\ tick_pc = "L108" /\ queue = SpGetQueue(FailedFetch)
             /\ tick_pc' # tick_pc => tick_pc' = "L116"
          /\ tick_pc = "L116" /\ queue = SpGetQueue(FailedFetch)
             /\ tick_pc' # tick_pc /\ app_queue # {} =>
                /\ tick_pc' = "L122"
                /\ next_song' = PickNextSong(app_queue, votes, song)
                /\ next_song' \in Songs
         ]_vars

\* The ledger holds two records, the fetch gave nothing, and the tick is
\* about to push the song it selected.
C27_Witness ==
    /\ tick_pc = "L122"
    /\ queue = SpGetQueue(FailedFetch)
    /\ Len(last_added_songs) >= 2
    /\ next_song \in Songs
    /\ Queued(next_song)

\* ---------------------------------------------------------------------
\* C28  A tick deletes votes of the entry it selected and of no other.
\* The tick removes the selected entry in its removal step, so every vote
\* row a step of the tick deletes names an entry that is no longer queued
\* after that step: no row of an entry that stays in the queue is deleted,
\* in particular none of a new entry of the same song admitted while the
\* tick was in progress.
C28_OwnVotesOnly ==
    [][tick_pc' # tick_pc =>
          \A v \in votes \ votes' :
              ~ \E e \in app_queue' : e.id = v.app_queue_id
      ]_vars

\* ---------------------------------------------------------------------
\* C29  The queue drains.  With ticks that keep running, a device that
\* keeps advancing, pushes and bookkeeping steps that succeed, and
\* admissions that end: the queue is eventually empty for good, and every
\* entry is pushed exactly once - between ticks the pushes recorded in the
\* ledger and the entries still queued add up to the entries ever created,
\* and a push is always the push of a queued song.
C29_Drain ==
    /\ <>[](app_queue = {})
    /\ [](tick_pc = "idle" =>
            Len(last_added_songs) + Cardinality(app_queue) = app_queue_seq)
    /\ [][tick_pc = "L122" /\ tick_pc' = "L127" =>
            /\ device' = Append(device, next_song)
            /\ next_song \in Songs
         ]_vars

\* MaxQid entries were created, each was pushed, the queue is empty and the
\* device is playing the last of them.
C29_Witness ==
    /\ app_queue = {}
    /\ app_queue_seq = MaxQid
    /\ Len(last_added_songs) = MaxQid
    /\ tick_pc = "idle"
    /\ device = <<last_added_songs[MaxQid]>>

====
